---------------------------- MODULE Spec2Model ----------------------------
(***************************************************************************)
(* Model of src/lib.rs: the ExtraResult trait, the async counterparts of  *)
(* the Result combinators (map_fut, map_or_fut, ..., is_err_and_fut).      *)
(*                                                                         *)
(* Every method is an async block that matches on self.  One arm returns   *)
(* at once; the other calls the supplied AsyncFnOnce step on the payload   *)
(* and awaits it.  A call is modelled as the state machine the async block *)
(* is: the first poll runs the match (the per-method operators below),     *)
(* the step's future then either resolves or panics, and on resolution the *)
(* method's continuation builds the returned value.                        *)
(***************************************************************************)
EXTENDS Integers, Sequences, FiniteSets, TLC

\* Payloads are 0..MaxVal (the T, E and U of the generic signatures).
MaxVal == 1
\* Longest chain of calls `a.x_fut(..).await.y_fut(..).await ...` explored.
MaxChain == 3

VARIABLES
    self,      \* the Result the current call consumes
    op,        \* the method called ("" before the first call)
    f,         \* the step `f` of the current call (a table: payload -> outcome of the step)
    default,   \* map_or_fut: the default value; map_or_else_fut: the step `default`
    pc,        \* "ready" | "awaiting" | "resuming" | "done" | "panicked"
    pending,   \* what the first poll of the async block produced
    result,    \* what the call's future resolved to
    invoked,   \* the step invocations of the current call, in order
    effects,   \* the payloads seen by step bodies that ran to completion
    link,      \* position of the current call in the chain (1 = first)
    failed     \* the first Err a previous link (or the initial input) carried

vars == <<self, op, f, default, pc, pending, result, invoked, effects, link, failed>>

-----------------------------------------------------------------------------
(* Values *)

Vals == 0..MaxVal

Ok(v) == [tag |-> "Ok", val |-> v]
Err(e) == [tag |-> "Err", val |-> e]
IsOk(r) == r.tag = "Ok"
IsErr(r) == r.tag = "Err"
Results == {Ok(v) : v \in Vals} \cup {Err(e) : e \in Vals}

\* The unit value `()` an inspect step returns.
Unit == <<>>

\* How a step's future, or a call's future, ends: with a value or by a panic.
Return(x) == [kind |-> "return", value |-> x]
Panics == [kind |-> "panic", value |-> Unit]
NoResult == [kind |-> "none", value |-> Unit]
Nothing == <<>>

\* AsyncFnOnce(T) -> U, AsyncFnOnce(E) -> U, AsyncFnOnce(E) -> T
ValSteps == [Vals -> {Return(u) : u \in Vals} \cup {Panics}]
\* AsyncFnOnce(T) -> Result<U, E>, AsyncFnOnce(E) -> Result<T, U>
ResultSteps == [Vals -> {Return(r) : r \in Results} \cup {Panics}]
\* AsyncFnOnce(&T) -> bool, AsyncFnOnce(&E) -> bool
BoolSteps == [Vals -> {Return(b) : b \in BOOLEAN} \cup {Panics}]
\* AsyncFnOnce(&T), AsyncFnOnce(&E)
UnitSteps == [Vals -> {Return(Unit), Panics}]

-----------------------------------------------------------------------------
(* The first poll of each async block: the match on self.                 *)
(* Ready(x): the arm returns x without awaiting.                           *)
(* Await(s, a, k): the arm calls step s on a and awaits it; k maps the     *)
(* value the step resolves to onto the value the block returns.            *)

Ready(x) == [kind |-> "ready", value |-> x]
Await(s, a, k) == [kind |-> "await", step |-> s, arg |-> a, cont |-> k]

\* Faulty map_fut: no short circuit, the step is run on an Err's payload too.
map_fut_MapsErrToo(self_) ==
    Await("f", self_.val, [u \in Vals |-> IF IsOk(self_) THEN Ok(u) ELSE Err(u)])

map_fut(self_) ==
    IF IsOk(self_)
    THEN Await("f", self_.val, [u \in Vals |-> Ok(u)])
    ELSE Ready(Err(self_.val))

\* Faulty map_or_fut: an Ok that already holds the default skips the step.
map_or_fut_SkipsOnDefault(self_, default_) ==
    IF IsOk(self_) /\ self_.val # default_
    THEN Await("f", self_.val, [u \in Vals |-> u])
    ELSE Ready(default_)

map_or_fut(self_, default_) ==
    IF IsOk(self_)
    THEN Await("f", self_.val, [u \in Vals |-> u])
    ELSE Ready(default_)

\* Faulty map_or_else_fut: the two steps are swapped.
map_or_else_fut_Swapped(self_) ==
    IF IsOk(self_)
    THEN Await("default", self_.val, [u \in Vals |-> u])
    ELSE Await("f", self_.val, [u \in Vals |-> u])

map_or_else_fut(self_) ==
    IF IsOk(self_)
    THEN Await("f", self_.val, [u \in Vals |-> u])
    ELSE Await("default", self_.val, [u \in Vals |-> u])

\* Faulty map_err_fut: the Err is passed through, the step never runs.
map_err_fut_SkipsStep(self_) ==
    IF IsOk(self_)
    THEN Ready(Ok(self_.val))
    ELSE Ready(Err(self_.val))

map_err_fut(self_) ==
    IF IsOk(self_)
    THEN Ready(Ok(self_.val))
    ELSE Await("f", self_.val, [u \in Vals |-> Err(u)])

\* Faulty inspect_fut: the step is run whatever the variant.
inspect_fut_AnyVariant(self_) ==
    Await("f", self_.val, [u \in {Unit} |-> self_])

inspect_fut(self_) ==
    IF IsOk(self_)
    THEN Await("f", self_.val, [u \in {Unit} |-> self_])
    ELSE Ready(self_)

\* Faulty inspect_err_fut: the pattern is inspect_fut's `Ok(ref v)`.
inspect_err_fut_OnOk(self_) ==
    IF IsOk(self_)
    THEN Await("f", self_.val, [u \in {Unit} |-> self_])
    ELSE Ready(self_)

inspect_err_fut(self_) ==
    IF IsErr(self_)
    THEN Await("f", self_.val, [u \in {Unit} |-> self_])
    ELSE Ready(self_)

\* Faulty and_then_fut: the step's Result is rewrapped as in map_fut.
and_then_fut_Rewraps(self_) ==
    IF IsOk(self_)
    THEN Await("f", self_.val, [r \in Results |-> Ok(r.val)])
    ELSE Ready(Err(self_.val))

and_then_fut(self_) ==
    IF IsOk(self_)
    THEN Await("f", self_.val, [r \in Results |-> r])
    ELSE Ready(Err(self_.val))

\* Faulty or_else_fut: the arms are and_then_fut's.
or_else_fut_AsAndThen(self_) ==
    IF IsOk(self_)
    THEN Await("f", self_.val, [r \in Results |-> r])
    ELSE Ready(Err(self_.val))

or_else_fut(self_) ==
    IF IsOk(self_)
    THEN Ready(Ok(self_.val))
    ELSE Await("f", self_.val, [r \in Results |-> r])

unwrap_or_else_fut(self_) ==
    IF IsOk(self_)
    THEN Ready(self_.val)
    ELSE Await("f", self_.val, [t \in Vals |-> t])

is_ok_and_fut(self_) ==
    IF IsOk(self_)
    THEN Await("f", self_.val, [b \in BOOLEAN |-> b])
    ELSE Ready(FALSE)

\* Faulty is_err_and_fut: the arms are is_ok_and_fut's.
is_err_and_fut_OnOk(self_) ==
    IF IsOk(self_)
    THEN Await("f", self_.val, [b \in BOOLEAN |-> b])
    ELSE Ready(FALSE)

is_err_and_fut(self_) ==
    IF IsOk(self_)
    THEN Ready(FALSE)
    ELSE Await("f", self_.val, [b \in BOOLEAN |-> b])

\* The first poll of method o called on self_ (d: map_or_fut's default).
Poll(o, self_, d) ==
    CASE o = "map_fut" -> map_fut(self_)
      [] o = "map_or_fut" -> map_or_fut(self_, d)
      [] o = "map_or_else_fut" -> map_or_else_fut(self_)
      [] o = "map_err_fut" -> map_err_fut(self_)
      [] o = "inspect_fut" -> inspect_fut(self_)
      [] o = "inspect_err_fut" -> inspect_err_fut(self_)
      [] o = "and_then_fut" -> and_then_fut(self_)
      [] o = "or_else_fut" -> or_else_fut(self_)
      [] o = "unwrap_or_else_fut" -> unwrap_or_else_fut(self_)
      [] o = "is_ok_and_fut" -> is_ok_and_fut(self_)
      [] o = "is_err_and_fut" -> is_err_and_fut(self_)

-----------------------------------------------------------------------------
(* The call as a state machine *)

\* The table of the step named s in the current call.
StepTable(s) == IF s = "f" THEN f ELSE default

\* A method called on a ready Result: its future is polled up to the first
\* suspension (the callers below check pc = "ready" and choose the steps).
Begin(o, poll) ==
    /\ op' = o
    /\ pending' = poll
    /\ IF poll.kind = "ready"
       THEN /\ pc' = "done"
            /\ result' = Return(poll.value)
            /\ invoked' = invoked
       ELSE /\ pc' = "awaiting"
            /\ result' = NoResult
            /\ invoked' = Append(invoked, [step |-> poll.step, arg |-> poll.arg])
    /\ UNCHANGED <<self, effects, link, failed>>

MapFut ==
    /\ pc = "ready"
    /\ \E g \in ValSteps :
        /\ f' = g /\ default' = Nothing
        /\ Begin("map_fut", map_fut(self))

MapOrFut ==
    /\ pc = "ready"
    /\ \E g \in ValSteps, d \in Vals :
        /\ f' = g /\ default' = d
        /\ Begin("map_or_fut", map_or_fut(self, d))

MapOrElseFut ==
    /\ pc = "ready"
    /\ \E g \in ValSteps, d \in ValSteps :
        /\ f' = g /\ default' = d
        /\ Begin("map_or_else_fut", map_or_else_fut(self))

MapErrFut ==
    /\ pc = "ready"
    /\ \E g \in ValSteps :
        /\ f' = g /\ default' = Nothing
        /\ Begin("map_err_fut", map_err_fut(self))

InspectFut ==
    /\ pc = "ready"
    /\ \E g \in UnitSteps :
        /\ f' = g /\ default' = Nothing
        /\ Begin("inspect_fut", inspect_fut(self))

InspectErrFut ==
    /\ pc = "ready"
    /\ \E g \in UnitSteps :
        /\ f' = g /\ default' = Nothing
        /\ Begin("inspect_err_fut", inspect_err_fut(self))

AndThenFut ==
    /\ pc = "ready"
    /\ \E g \in ResultSteps :
        /\ f' = g /\ default' = Nothing
        /\ Begin("and_then_fut", and_then_fut(self))

OrElseFut ==
    /\ pc = "ready"
    /\ \E g \in ResultSteps :
        /\ f' = g /\ default' = Nothing
        /\ Begin("or_else_fut", or_else_fut(self))

UnwrapOrElseFut ==
    /\ pc = "ready"
    /\ \E g \in ValSteps :
        /\ f' = g /\ default' = Nothing
        /\ Begin("unwrap_or_else_fut", unwrap_or_else_fut(self))

IsOkAndFut ==
    /\ pc = "ready"
    /\ \E g \in BoolSteps :
        /\ f' = g /\ default' = Nothing
        /\ Begin("is_ok_and_fut", is_ok_and_fut(self))

IsErrAndFut ==
    /\ pc = "ready"
    /\ \E g \in BoolSteps :
        /\ f' = g /\ default' = Nothing
        /\ Begin("is_err_and_fut", is_err_and_fut(self))

\* What the awaited step does with the argument it was called on.
StepOutcome == StepTable(pending.step)[pending.arg]

\* The awaited step's body runs to completion (its side effect has happened).
StepCompletes ==
    /\ pc = "awaiting"
    /\ StepOutcome.kind = "return"
    /\ pc' = "resuming"
    /\ effects' = Append(effects, pending.arg)
    /\ UNCHANGED <<self, op, f, default, pending, result, invoked, link, failed>>

\* The async block resumes after `.await` and returns.
Resume ==
    /\ pc = "resuming"
    /\ pc' = "done"
    /\ result' = Return(pending.cont[StepOutcome.value])
    /\ UNCHANGED <<self, op, f, default, pending, invoked, effects, link, failed>>

\* Faulty await: the step's panic is caught and the call falls back to self.
StepPanicsSwallowed ==
    /\ pc = "awaiting"
    /\ StepOutcome.kind = "panic"
    /\ pc' = "done"
    /\ result' = Return(self)
    /\ UNCHANGED <<self, op, f, default, pending, invoked, effects, link, failed>>

\* The awaited step panics: nothing in the block catches the unwind.
StepPanics ==
    /\ pc = "awaiting"
    /\ StepOutcome.kind = "panic"
    /\ pc' = "panicked"
    /\ result' = Panics
    /\ UNCHANGED <<self, op, f, default, pending, invoked, effects, link, failed>>

\* The caller feeds the awaited Result into the next call of a chain.
NextLink ==
    /\ pc = "done"
    /\ link < MaxChain
    /\ result.value \in Results
    /\ self' = result.value
    /\ failed' = IF failed = NoResult /\ IsErr(result.value)
                 THEN Return(result.value.val)
                 ELSE failed
    /\ link' = link + 1
    /\ pc' = "ready"
    /\ result' = NoResult
    /\ invoked' = <<>>
    /\ op' = "" /\ f' = Nothing /\ default' = Nothing /\ pending' = Nothing
    /\ UNCHANGED effects

Init ==
    /\ self \in Results
    /\ op = ""
    /\ f = Nothing
    /\ default = Nothing
    /\ pc = "ready"
    /\ pending = Nothing
    /\ result = NoResult
    /\ invoked = <<>>
    /\ effects = <<>>
    /\ link = 1
    /\ failed = IF IsErr(self) THEN Return(self.val) ELSE NoResult

\* One call of any method of the trait.
Next ==
    \/ MapFut
    \/ MapOrFut
    \/ MapOrElseFut
    \/ MapErrFut
    \/ InspectFut
    \/ InspectErrFut
    \/ AndThenFut
    \/ OrElseFut
    \/ UnwrapOrElseFut
    \/ IsOkAndFut
    \/ IsErrAndFut
    \/ StepCompletes
    \/ Resume
    \/ StepPanics

Spec == Init /\ [][Next]_vars

\* A chain of map_fut, and_then_fut and inspect_fut calls, each awaited
\* before the next is called.
ChainNext ==
    \/ MapFut
    \/ AndThenFut
    \/ InspectFut
    \/ StepCompletes
    \/ Resume
    \/ StepPanics
    \/ NextLink

ChainSpec == Init /\ [][ChainNext]_vars

-----------------------------------------------------------------------------
(* Properties *)

\* The invocation of step s on payload a.
Call(s, a) == [step |-> s, arg |-> a]

\* C1: map_fut on Ok(v) invokes f on v (once) and resolves to Ok(f(v)); on
\* Err(e) it resolves to Err(e), same payload, and f is never invoked.
C1_MapFut ==
    op = "map_fut" =>
        /\ IsOk(self) =>
            /\ invoked = <<Call("f", self.val)>>
            /\ pc = "done" => result = Return(Ok(f[self.val].value))
        /\ IsErr(self) =>
            /\ pc = "done"
            /\ result = Return(Err(self.val))
            /\ invoked = <<>>

\* map_fut resolved on an Ok whose step changed the value.
C1_Witness ==
    /\ op = "map_fut" /\ pc = "done" /\ IsOk(self)
    /\ f[self.val].value # self.val
    /\ result = Return(Ok(f[self.val].value))

\* C2: and_then_fut on Ok(v) resolves to exactly the Result f(v) produced,
\* Ok or Err, unwrapped and unmapped; on Err(e) it resolves to Err(e) and f
\* is never invoked.
C2_AndThenFut ==
    op = "and_then_fut" =>
        /\ IsOk(self) =>
            /\ invoked = <<Call("f", self.val)>>
            /\ pc = "done" => result = f[self.val]
        /\ IsErr(self) =>
            /\ pc = "done"
            /\ result = Return(Err(self.val))
            /\ invoked = <<>>

\* and_then_fut resolved on an Ok whose step produced an Err.
C2_Witness ==
    /\ op = "and_then_fut" /\ pc = "done" /\ IsOk(self)
    /\ IsErr(result.value)
    /\ result.value.val # self.val

\* C3: or_else_fut on Err(e) resolves to exactly the Result f(e) produced
\* (a recovery to Ok, or a new Err); on Ok(v) it resolves to Ok(v) and f is
\* never invoked, whatever f would have returned.
C3_OrElseFut ==
    op = "or_else_fut" =>
        /\ IsErr(self) =>
            /\ invoked = <<Call("f", self.val)>>
            /\ pc = "done" => result = f[self.val]
        /\ IsOk(self) =>
            /\ pc = "done"
            /\ result = Return(Ok(self.val))
            /\ invoked = <<>>

\* or_else_fut recovered an Err to an Ok.
C3_Witness ==
    /\ op = "or_else_fut" /\ pc = "done" /\ IsErr(self)
    /\ IsOk(result.value)

\* The variant on which inspect_fut / inspect_err_fut run their step.
InspectMatches ==
    \/ op = "inspect_fut" /\ IsOk(self)
    \/ op = "inspect_err_fut" /\ IsErr(self)

\* C4: inspect_fut and inspect_err_fut resolve to their input, variant and
\* payload unchanged; on the matching variant the step is invoked once on
\* the payload and its side effect has happened, once, before the call
\* resolves; on the other variant there is no invocation and no effect.
C4_Inspect ==
    op \in {"inspect_fut", "inspect_err_fut"} =>
        /\ pc = "done" => result = Return(self)
        /\ InspectMatches =>
            /\ invoked = <<Call("f", self.val)>>
            /\ pc = "awaiting" => effects = <<>> /\ result = NoResult
            /\ pc = "resuming" => effects = <<self.val>> /\ result = NoResult
            /\ pc = "done" => effects = <<self.val>>
        /\ ~InspectMatches =>
            /\ pc = "done"
            /\ invoked = <<>>
            /\ effects = <<>>

\* inspect_err_fut resolved on an Err after its step ran.
C4_Witness ==
    /\ op = "inspect_err_fut" /\ pc = "done" /\ IsErr(self)
    /\ effects = <<self.val>>
    /\ result = Return(self)

\* C5: map_or_else_fut always invokes exactly one of its two steps: f on v
\* for Ok(v), default on e for Err(e), never the other; it resolves to what
\* the invoked step returned.
C5_MapOrElseFut ==
    op = "map_or_else_fut" =>
        /\ IsOk(self) =>
            /\ invoked = <<Call("f", self.val)>>
            /\ pc = "done" => result = f[self.val]
        /\ IsErr(self) =>
            /\ invoked = <<Call("default", self.val)>>
            /\ pc = "done" => result = default[self.val]

\* map_or_else_fut resolved on an Err where the two steps disagree.
C5_Witness ==
    /\ op = "map_or_else_fut" /\ pc = "done" /\ IsErr(self)
    /\ f[self.val] # default[self.val]
    /\ result = default[self.val]

-----------------------------------------------------------------------------
(* The synchronous Result methods of core::result, which the trait's       *)
(* documentation names as the reference: each applied to self and the same *)
(* step table, a panic of the closure unwinding through the method.        *)

\* The closure g applied to a, its value passed through wrap.
Apply(g, a, wrap(_)) ==
    IF g[a].kind = "panic" THEN Panics ELSE Return(wrap(g[a].value))

Same(x) == x

Result_map(self_, g) ==
    IF IsOk(self_) THEN Apply(g, self_.val, Ok) ELSE Return(Err(self_.val))

Result_map_or(self_, d, g) ==
    IF IsOk(self_) THEN Apply(g, self_.val, Same) ELSE Return(d)

Result_map_or_else(self_, d, g) ==
    IF IsOk(self_) THEN Apply(g, self_.val, Same) ELSE Apply(d, self_.val, Same)

Result_map_err(self_, g) ==
    IF IsOk(self_) THEN Return(Ok(self_.val)) ELSE Apply(g, self_.val, Err)

Result_inspect(self_, g) ==
    IF IsOk(self_) THEN Apply(g, self_.val, LAMBDA u : self_) ELSE Return(self_)

Result_inspect_err(self_, g) ==
    IF IsErr(self_) THEN Apply(g, self_.val, LAMBDA u : self_) ELSE Return(self_)

Result_and_then(self_, g) ==
    IF IsOk(self_) THEN Apply(g, self_.val, Same) ELSE Return(Err(self_.val))

Result_or_else(self_, g) ==
    IF IsOk(self_) THEN Return(Ok(self_.val)) ELSE Apply(g, self_.val, Same)

Result_unwrap_or_else(self_, g) ==
    IF IsOk(self_) THEN Return(self_.val) ELSE Apply(g, self_.val, Same)

Result_is_ok_and(self_, g) ==
    IF IsOk(self_) THEN Apply(g, self_.val, Same) ELSE Return(FALSE)

Result_is_err_and(self_, g) ==
    IF IsOk(self_) THEN Return(FALSE) ELSE Apply(g, self_.val, Same)

\* The synchronous counterpart of method o.
Counterpart(o, self_, d, g) ==
    CASE o = "map_fut" -> Result_map(self_, g)
      [] o = "map_or_fut" -> Result_map_or(self_, d, g)
      [] o = "map_or_else_fut" -> Result_map_or_else(self_, d, g)
      [] o = "map_err_fut" -> Result_map_err(self_, g)
      [] o = "inspect_fut" -> Result_inspect(self_, g)
      [] o = "inspect_err_fut" -> Result_inspect_err(self_, g)
      [] o = "and_then_fut" -> Result_and_then(self_, g)
      [] o = "or_else_fut" -> Result_or_else(self_, g)
      [] o = "unwrap_or_else_fut" -> Result_unwrap_or_else(self_, g)
      [] o = "is_ok_and_fut" -> Result_is_ok_and(self_, g)
      [] o = "is_err_and_fut" -> Result_is_err_and(self_, g)

\* C6: whatever method was called, once its future has ended it has ended
\* the way the synchronous Result method it mirrors ends on the same input
\* with the same step: with the same value, or with the step's panic.
C6_SameAsSync ==
    pc \in {"done", "panicked"} => result = Counterpart(op, self, default, f)

\* unwrap_or_else_fut resolved on an Err to the value Result::unwrap_or_else
\* gives, which is not the Err's payload.
C6_Witness ==
    /\ op = "unwrap_or_else_fut" /\ pc = "done" /\ IsErr(self)
    /\ result = Result_unwrap_or_else(self, f)
    /\ result.value # self.val

\* The variant whose payload the step of method o is for (map_or_else_fut
\* has a step for each).
Target(o) ==
    IF o \in {"map_fut", "map_or_fut", "inspect_fut", "and_then_fut", "is_ok_and_fut"}
    THEN "Ok"
    ELSE "Err"

\* C7: in every call each supplied step is invoked at most once, on self's
\* payload, and only when self is the variant the step is for: Ok for f in
\* map, map_or, inspect, and_then, is_ok_and (and map_or_else), Err for f in
\* map_err, inspect_err, or_else, unwrap_or_else, is_err_and (and for
\* default in map_or_else).
C7_StepOnlyOnTarget ==
    op # "" =>
        /\ \A i, j \in DOMAIN invoked : invoked[i].step = invoked[j].step => i = j
        /\ \A i \in DOMAIN invoked :
            /\ invoked[i].arg = self.val
            /\ IF op = "map_or_else_fut"
               THEN self.tag = (IF invoked[i].step = "f" THEN "Ok" ELSE "Err")
               ELSE invoked[i].step = "f" /\ self.tag = Target(op)

\* is_err_and_fut on an Ok: resolved to false with no invocation, although
\* the step would have returned true on the payload.
C7_Witness ==
    /\ op = "is_err_and_fut" /\ pc = "done" /\ IsOk(self)
    /\ invoked = <<>>
    /\ f[self.val] = Return(TRUE)
    /\ result = Return(FALSE)

\* Method o has an input on which its first poll ends as `kind`.
HasPath(o, kind) == \E s \in Results : Poll(o, s, default).kind = kind

\* The path the current call took is the path of every input of self's variant.
PathSetByVariant ==
    \A s \in Results : s.tag = self.tag => Poll(op, s, default).kind = pending.kind

\* C8 as stated: the method called has a fast path (no await reached) and a
\* slow path (await reached), and the variant of self alone decides which
\* one the call takes.
C8_FastAndSlowPath ==
    op # "" =>
        /\ HasPath(op, "ready")
        /\ HasPath(op, "await")
        /\ PathSetByVariant

\* C8 amended: the variant of self alone decides the path of every call, and
\* the call reaches its await exactly when a step was invoked; every method
\* but map_or_else_fut awaits on its target variant only and so has both
\* paths; map_or_else_fut has no fast path, it awaits on Ok and on Err.
C8_PathByVariant ==
    op # "" =>
        /\ PathSetByVariant
        /\ pending.kind = "await" <=> invoked # <<>>
        /\ IF op = "map_or_else_fut"
           THEN /\ pending.kind = "await"
                /\ ~HasPath(op, "ready")
           ELSE /\ pending.kind = "await" <=> self.tag = Target(op)
                /\ HasPath(op, "ready")
                /\ HasPath(op, "await")

\* map_or_else_fut on an Err is suspended on its `default` step.
C8_Witness ==
    /\ op = "map_or_else_fut" /\ IsErr(self)
    /\ pc = "awaiting"
    /\ invoked = <<Call("default", self.val)>>

\* C9: a call whose step panicked has ended with that panic and nothing
\* else: one invocation, no value, no further step of the call possible; and
\* a call that resumed or resolved after invoking a step did so on a step
\* that returned.
C9_PanicPropagates ==
    /\ pc = "panicked" =>
        /\ result = Panics
        /\ Len(invoked) = 1
        /\ StepOutcome = Panics
        /\ ~ENABLED Next
    /\ pc = "awaiting" /\ StepOutcome = Panics => ~ENABLED (StepCompletes \/ Resume)
    /\ pc \in {"resuming", "done"} /\ invoked # <<>> => StepOutcome.kind = "return"

\* map_or_fut ended with the panic of its step, not with its default.
C9_Witness ==
    /\ op = "map_or_fut" /\ pc = "panicked"
    /\ result = Panics
    /\ invoked = <<Call("f", self.val)>>

\* C10: in a chain of map_fut, and_then_fut and inspect_fut calls, once a
\* link has yielded Err(e) (the initial input, or an and_then_fut step), every
\* later link is called on Err(e), invokes no step, never suspends and
\* resolves to Err(e).
C10_ChainShortCircuits ==
    failed # NoResult =>
        /\ self = Err(failed.value)
        /\ invoked = <<>>
        /\ pc \in {"ready", "done"}
        /\ pc = "done" => result = Return(Err(failed.value))

\* The third link resolved to the Err an earlier and_then_fut step produced
\* (a step ran before, so the initial input was Ok).
C10_Witness ==
    /\ failed # NoResult
    /\ link >= 3
    /\ effects # <<>>
    /\ op = "inspect_fut" /\ pc = "done"
    /\ result = Return(Err(failed.value))

=============================================================================
